---- MODULE Spec2Model ----
(***************************************************************************)
(* Gomoku: the board engine (src/board.py) and the search engine           *)
(* (src/ai.py).  The grid is board[y][x] as in the source, 0 = empty,      *)
(* 1 = black, 2 = white.  Operations that mutate the grid in place and     *)
(* undo their mutation are modelled by threading the grid through them,    *)
(* so that "the grid is restored" is something the model can get wrong.    *)
(* game holds the fields of the Game object (src/game.py) whose grid board *)
(* is, or None where the board and the engine are used without a Game.     *)
(***************************************************************************)
EXTENDS Integers, Sequences, FiniteSets, TLC

VARIABLES board, op, args, ret, game

vars == <<board, op, args, ret, game>>

(* ------------------------------ bounds -------------------------------- *)

\* Board(size): the side of the grid (15 in the game, scaled down here).
Size == 6

\* Largest depth handed to minimax directly (the tiers use 0, 1 and 2 below
\* the wrapper; Hard reaches 3 plies through _minimax_move).
MaxDepth == 2

(* ----------------------------- constants ------------------------------ *)

win_length == 5

player == 2

opponent == 1

\* float('inf'): larger than any evaluation the bounded grids can produce.
PosInf == 1000000000

NegInf == -PosInf

\* The value None.
None == <<>>

Coords == 0 .. (Size - 1)

directions == << <<1, 0>>, <<0, 1>>, <<1, 1>>, <<1, -1>> >>

InRange(x, y) == x >= 0 /\ x < Size /\ y >= 0 /\ y < Size

(* ---------------------------- board.py -------------------------------- *)

EmptyBoard == [y \in Coords |-> [x \in Coords |-> 0]]

\* A variant without the lower range check: a negative index then wraps
\* around to the far side of the grid, as a Python index does.
is_valid_move_wrap(b, x, y) ==
    IF x >= Size \/ y >= Size
    THEN FALSE
    ELSE b[(y + Size) % Size][(x + Size) % Size] = 0

is_valid_move(b, x, y) ==
    IF x < 0 \/ x >= Size \/ y < 0 \/ y >= Size
    THEN FALSE
    ELSE b[y][x] = 0

\* A variant that tests the range but not the cell: it overwrites a stone.
place_stone_overwrite(b, x, y, p) ==
    IF x \in Coords /\ y \in Coords
    THEN [ok |-> TRUE, board |-> [b EXCEPT ![y][x] = p]]
    ELSE [ok |-> FALSE, board |-> b]

\* Returns the boolean result and the grid after the call.
place_stone(b, x, y, p) ==
    IF is_valid_move(b, x, y)
    THEN [ok |-> TRUE, board |-> [b EXCEPT ![y][x] = p]]
    ELSE [ok |-> FALSE, board |-> b]

RECURSIVE count_from(_, _, _, _, _, _)
count_from(b, nx, ny, dx, dy, p) ==
    IF 0 <= nx /\ nx < Size /\ 0 <= ny /\ ny < Size /\ b[ny][nx] = p
    THEN 1 + count_from(b, nx + dx, ny + dy, dx, dy, p)
    ELSE 0

count_direction(b, x, y, dx, dy, p) == count_from(b, x + dx, y + dy, dx, dy, p)

\* A variant that counts from the stone in one direction only.
check_win_forward(b, x, y, p) ==
    \E i \in 1 .. Len(directions) :
        1 + count_direction(b, x, y, directions[i][1], directions[i][2], p) >= win_length

check_win(b, x, y, p) ==
    \E i \in 1 .. Len(directions) :
        LET dx == directions[i][1]
            dy == directions[i][2]
            count == 1 + count_direction(b, x, y, dx, dy, p)
                       + count_direction(b, x, y, -dx, -dy, p)
        IN  count >= win_length

RECURSIVE row_moves(_, _, _)
row_moves(b, y, x) ==
    IF x >= Size THEN <<>>
    ELSE (IF is_valid_move(b, x, y) THEN << <<x, y>> >> ELSE <<>>)
         \o row_moves(b, y, x + 1)

RECURSIVE moves_from(_, _)
moves_from(b, y) ==
    IF y >= Size THEN <<>>
    ELSE row_moves(b, y, 0) \o moves_from(b, y + 1)

\* A variant with the two loops exchanged: column by column.
RECURSIVE column_moves(_, _, _)
column_moves(b, x, y) ==
    IF y >= Size THEN <<>>
    ELSE (IF is_valid_move(b, x, y) THEN << <<x, y>> >> ELSE <<>>)
         \o column_moves(b, x, y + 1)

RECURSIVE moves_by_column(_, _)
moves_by_column(b, x) ==
    IF x >= Size THEN <<>>
    ELSE column_moves(b, x, 0) \o moves_by_column(b, x + 1)

get_valid_moves_by_column(b) == moves_by_column(b, 0)

get_valid_moves(b) == moves_from(b, 0)

is_full(b) == \A y \in Coords : \A x \in Coords : b[y][x] # 0

\* A variant that clears the first row only.
reset_first_row(b) == [b EXCEPT ![0] = [x \in Coords |-> 0]]

\* self.board = np.zeros((size, size)): a new grid, whatever b held.
reset(b) == [y \in Coords |-> [x \in Coords |-> 0]]

(* ------------------------------ ai.py --------------------------------- *)

\* def __init__(self, depth=2, difficulty='Normal')
default_depth == 2

default_difficulty == "Normal"

\* The fields of a new AI.
AI_init(depth, difficulty) ==
    [depth |-> depth, difficulty |-> difficulty, player |-> player, opponent |-> opponent]

\* AI(*a): the arguments passed fill depth and difficulty from the left, the
\* defaults fill the rest.
AI(a) ==
    AI_init(IF Len(a) >= 1 THEN a[1] ELSE default_depth,
            IF Len(a) >= 2 THEN a[2] ELSE default_difficulty)

\* A variant that forgets to take the speculative stone back.
undo_forgotten(b, x, y) == b

\* board.board[y][x] = 0, the undo of a speculative stone.
undo(b, x, y) == [b EXCEPT ![y][x] = 0]

\* A variant without the test of the full board.
is_game_over_unless_full(b) ==
    \E y \in Coords : \E x \in Coords :
        b[y][x] # 0 /\ check_win(b, x, y, b[y][x])

is_game_over(b) ==
    \/ is_full(b)
    \/ \E y \in Coords : \E x \in Coords :
          b[y][x] # 0 /\ check_win(b, x, y, b[y][x])

RECURSIVE Pow10(_)
Pow10(n) == IF n <= 0 THEN 1 ELSE 10 * Pow10(n - 1)

\* A variant that tests the two blocked ends before the run of five.
calculate_line_score_blocked_first(count, blocked) ==
    IF blocked = 2 THEN 0
    ELSE IF count >= 5 THEN 100000
    ELSE IF blocked = 1 THEN Pow10(count - 1) \div 2
    ELSE Pow10(count - 1)

calculate_line_score(count, blocked) ==
    IF count >= 5 THEN 100000
    ELSE IF blocked = 2 THEN 0
    ELSE IF blocked = 1 THEN Pow10(count - 1) \div 2
    ELSE Pow10(count - 1)

\* A variant that counts the edge of the grid as a blocked end.
RECURSIVE scan_edge_blocked(_, _, _, _, _, _)
scan_edge_blocked(b, nx, ny, dx, dy, p) ==
    IF ~(0 <= nx /\ nx < Size /\ 0 <= ny /\ ny < Size)
    THEN [count |-> 0, blocked |-> 1]
    ELSE IF b[ny][nx] = p
    THEN LET r == scan_edge_blocked(b, nx + dx, ny + dy, dx, dy, p)
         IN  [count |-> r.count + 1, blocked |-> r.blocked]
    ELSE IF b[ny][nx] # 0
    THEN [count |-> 0, blocked |-> 1]
    ELSE [count |-> 0, blocked |-> 0]

\* One of the two while loops of evaluate_position: the stones of p counted
\* from (nx, ny) on, and whether the walk ended on a stone of the other side.
RECURSIVE scan(_, _, _, _, _, _)
scan(b, nx, ny, dx, dy, p) ==
    IF ~(0 <= nx /\ nx < Size /\ 0 <= ny /\ ny < Size)
    THEN [count |-> 0, blocked |-> 0]
    ELSE IF b[ny][nx] = p
    THEN LET r == scan(b, nx + dx, ny + dy, dx, dy, p)
         IN  [count |-> r.count + 1, blocked |-> r.blocked]
    ELSE IF b[ny][nx] # 0
    THEN [count |-> 0, blocked |-> 1]
    ELSE [count |-> 0, blocked |-> 0]

RECURSIVE position_from(_, _, _, _, _)
position_from(b, x, y, p, i) ==
    IF i > Len(directions) THEN 0
    ELSE LET dx == directions[i][1]
             dy == directions[i][2]
             f == scan(b, x + dx, y + dy, dx, dy, p)
             g == scan(b, x - dx, y - dy, -dx, -dy, p)
         IN  calculate_line_score(1 + f.count + g.count, f.blocked + g.blocked)
             + position_from(b, x, y, p, i + 1)

evaluate_position(b, x, y, p) == position_from(b, x, y, p, 1)

\* The inner loop of evaluate_board: row y from column x on.
RECURSIVE evaluate_row(_, _, _)
evaluate_row(b, y, x) ==
    IF x >= Size THEN 0
    ELSE LET here == IF b[y][x] = 0 THEN 0
                     ELSE IF b[y][x] = player
                     THEN evaluate_position(b, x, y, b[y][x])
                     ELSE 0 - evaluate_position(b, x, y, b[y][x])
         IN  here + evaluate_row(b, y, x + 1)

\* The outer loop of evaluate_board: the rows from y on.
RECURSIVE evaluate_from(_, _)
evaluate_from(b, y) ==
    IF y >= Size THEN 0
    ELSE evaluate_row(b, y, 0) + evaluate_from(b, y + 1)

evaluate_board(b) == evaluate_from(b, 0)

Max(a, c) == IF a >= c THEN a ELSE c

Min(a, c) == IF a <= c THEN a ELSE c

\* A variant with the comparison the wrong way round.
cutoff_inverted(alpha, beta) == alpha <= beta

\* "if beta <= alpha: break"
cutoff(alpha, beta) == beta <= alpha

RECURSIVE minimax(_, _, _, _, _)
RECURSIVE max_loop(_, _, _, _, _, _, _)
RECURSIVE min_loop(_, _, _, _, _, _, _)

\* A variant that takes the stone back only after the cutoff test, so that
\* the break leaves it on the grid.
max_loop_leaky(b, depth, moves, i, max_score, alpha, beta) ==
    IF i > Len(moves) THEN [score |-> max_score, board |-> b]
    ELSE LET x == moves[i][1]
             y == moves[i][2]
             r == minimax(place_stone(b, x, y, player).board, depth - 1, FALSE, alpha, beta)
             m2 == Max(max_score, r.score)
             a2 == Max(alpha, r.score)
         IN  IF beta <= a2 THEN [score |-> m2, board |-> r.board]
             ELSE max_loop(undo(r.board, x, y), depth, moves, i + 1, m2, a2, beta)

\* The maximizing for-loop from move i on; b is the grid as the loop finds it.
max_loop(b, depth, moves, i, max_score, alpha, beta) ==
    IF i > Len(moves) THEN [score |-> max_score, board |-> b]
    ELSE LET x == moves[i][1]
             y == moves[i][2]
             r == minimax(place_stone(b, x, y, player).board, depth - 1, FALSE, alpha, beta)
             b2 == undo(r.board, x, y)
             m2 == Max(max_score, r.score)
             a2 == Max(alpha, r.score)
         IN  IF cutoff(a2, beta) THEN [score |-> m2, board |-> b2]
             ELSE max_loop(b2, depth, moves, i + 1, m2, a2, beta)

\* The minimizing for-loop from move i on.
min_loop(b, depth, moves, i, min_score, alpha, beta) ==
    IF i > Len(moves) THEN [score |-> min_score, board |-> b]
    ELSE LET x == moves[i][1]
             y == moves[i][2]
             r == minimax(place_stone(b, x, y, opponent).board, depth - 1, TRUE, alpha, beta)
             b2 == undo(r.board, x, y)
             m2 == Min(min_score, r.score)
             be2 == Min(beta, r.score)
         IN  IF cutoff(alpha, be2) THEN [score |-> m2, board |-> b2]
             ELSE min_loop(b2, depth, moves, i + 1, m2, alpha, be2)

\* A variant whose base case tests the depth only.
minimax_to_depth(b, depth, is_maximizing, alpha, beta) ==
    IF depth = 0
    THEN [score |-> evaluate_board(b), board |-> b]
    ELSE IF is_maximizing
    THEN max_loop(b, depth, get_valid_moves(b), 1, NegInf, alpha, beta)
    ELSE min_loop(b, depth, get_valid_moves(b), 1, PosInf, alpha, beta)

\* Returns the score and the grid after the call.
minimax(b, depth, is_maximizing, alpha, beta) ==
    IF depth = 0 \/ is_game_over(b)
    THEN [score |-> evaluate_board(b), board |-> b]
    ELSE IF is_maximizing
    THEN max_loop(b, depth, get_valid_moves(b), 1, NegInf, alpha, beta)
    ELSE min_loop(b, depth, get_valid_moves(b), 1, PosInf, alpha, beta)

RECURSIVE move_loop(_, _, _, _, _, _)

\* A variant that also takes a move of equal score: of several best moves the
\* last one is kept.
move_loop_keep_last(b, depth, moves, i, best_score, best_move) ==
    IF i > Len(moves) THEN [move |-> best_move, board |-> b]
    ELSE LET x == moves[i][1]
             y == moves[i][2]
             r == minimax(place_stone(b, x, y, player).board, depth - 1, FALSE, NegInf, PosInf)
             b2 == undo(r.board, x, y)
         IN  IF r.score >= best_score
             THEN move_loop(b2, depth, moves, i + 1, r.score, moves[i])
             ELSE move_loop(b2, depth, moves, i + 1, best_score, best_move)

\* The for-loop of _minimax_move from move i on.
move_loop(b, depth, moves, i, best_score, best_move) ==
    IF i > Len(moves) THEN [move |-> best_move, board |-> b]
    ELSE LET x == moves[i][1]
             y == moves[i][2]
             r == minimax(place_stone(b, x, y, player).board, depth - 1, FALSE, NegInf, PosInf)
             b2 == undo(r.board, x, y)
         IN  IF r.score > best_score
             THEN move_loop(b2, depth, moves, i + 1, r.score, moves[i])
             ELSE move_loop(b2, depth, moves, i + 1, best_score, best_move)

\* A variant that starts best_score at +inf: no score ever beats it.
minimax_move_from_inf(b, depth) ==
    LET valid_moves == get_valid_moves(b)
    IN  IF valid_moves = <<>> THEN [move |-> None, board |-> b]
        ELSE move_loop(b, depth, valid_moves, 1, PosInf, None)

\* Returns the move (or None) and the grid after the call.
minimax_move(b, depth) ==
    LET valid_moves == get_valid_moves(b)
    IN  IF valid_moves = <<>> THEN [move |-> None, board |-> b]
        ELSE move_loop(b, depth, valid_moves, 1, NegInf, None)

\* A variant without the early return: a later winning move replaces an
\* earlier one.
RECURSIVE easy_loop_last(_, _, _, _)
easy_loop_last(b, moves, i, p) ==
    IF i > Len(moves) THEN [found |-> FALSE, move |-> None, board |-> b]
    ELSE LET x == moves[i][1]
             y == moves[i][2]
             b1 == place_stone(b, x, y, p).board
             rest == easy_loop_last([b1 EXCEPT ![y][x] = 0], moves, i + 1, p)
         IN  IF rest.found THEN rest
             ELSE IF check_win(b1, x, y, p)
             THEN [found |-> TRUE, move |-> moves[i], board |-> rest.board]
             ELSE rest

\* One of the two Easy loops from move i on: place a stone of p, test the
\* win, undo; the first winning move ends the loop.
RECURSIVE easy_loop(_, _, _, _)
easy_loop(b, moves, i, p) ==
    IF i > Len(moves) THEN [found |-> FALSE, move |-> None, board |-> b]
    ELSE LET x == moves[i][1]
             y == moves[i][2]
             b1 == place_stone(b, x, y, p).board
         IN  IF check_win(b1, x, y, p)
             THEN [found |-> TRUE, move |-> moves[i], board |-> undo(b1, x, y)]
             ELSE easy_loop(undo(b1, x, y), moves, i + 1, p)

\* A variant whose Easy tier looks for the block before its own win.
get_best_move_block_first(b, difficulty, k) ==
    LET valid_moves == get_valid_moves(b)
    IN  IF valid_moves = <<>> THEN [move |-> None, board |-> b]
        ELSE IF difficulty = "Easy"
        THEN LET blk == easy_loop(b, valid_moves, 1, opponent)
             IN  IF blk.found THEN [move |-> blk.move, board |-> blk.board]
                 ELSE LET own == easy_loop(blk.board, valid_moves, 1, player)
                      IN  IF own.found THEN [move |-> own.move, board |-> own.board]
                          ELSE [move |-> valid_moves[k], board |-> own.board]
        ELSE IF difficulty = "Normal" THEN minimax_move(b, 1)
        ELSE IF difficulty = "Hard" THEN minimax_move(b, 3)
        ELSE minimax_move(b, 2)

\* A variant whose Normal tier searches to the depth the constructor takes by
\* default instead of depth 1.
get_best_move_default_depth(b, difficulty, k) ==
    LET valid_moves == get_valid_moves(b)
    IN  IF valid_moves = <<>> THEN [move |-> None, board |-> b]
        ELSE IF difficulty = "Easy"
        THEN LET own == easy_loop(b, valid_moves, 1, player)
             IN  IF own.found THEN [move |-> own.move, board |-> own.board]
                 ELSE LET blk == easy_loop(own.board, valid_moves, 1, opponent)
                      IN  IF blk.found THEN [move |-> blk.move, board |-> blk.board]
                          ELSE [move |-> valid_moves[k], board |-> blk.board]
        ELSE IF difficulty = "Hard" THEN minimax_move(b, 3)
        ELSE minimax_move(b, default_depth)

\* k is the index random.choice draws.
get_best_move(b, difficulty, k) ==
    LET valid_moves == get_valid_moves(b)
    IN  IF valid_moves = <<>> THEN [move |-> None, board |-> b]
        ELSE IF difficulty = "Easy"
        THEN LET own == easy_loop(b, valid_moves, 1, player)
             IN  IF own.found THEN [move |-> own.move, board |-> own.board]
                 ELSE LET blk == easy_loop(own.board, valid_moves, 1, opponent)
                      IN  IF blk.found THEN [move |-> blk.move, board |-> blk.board]
                          ELSE [move |-> valid_moves[k], board |-> blk.board]
        ELSE IF difficulty = "Normal" THEN minimax_move(b, 1)
        ELSE IF difficulty = "Hard" THEN minimax_move(b, 3)
        ELSE minimax_move(b, 2)

\* A variant that draws among all the cells of the grid.
get_random_move_any_cell(b, k) ==
    <<(k - 1) % Size, (k - 1) \div Size>>

\* get_random_move; k is the index random.choice draws.
get_random_move(b, k) ==
    LET valid_moves == get_valid_moves(b)
    IN  IF valid_moves # <<>> THEN valid_moves[k] ELSE None

(* ------------------------------ game.py ------------------------------- *)

\* None in the fields winner and ai_player, which otherwise hold 1 or 2; like
\* None it counts as false.
NoPlayer == 0

\* A click that lies in no button.
NoButton == "none"

\* Game.__init__; buttons is filled by the first render.
Game_init ==
    [game_mode |-> "2 Player", ai_difficulty |-> "Normal", ai_player |-> 2,
     ai |-> AI(<<2>>), buttons |-> {}, running |-> TRUE, game_over |-> FALSE,
     winner |-> NoPlayer, current_player |-> 1, show_main_menu |-> TRUE,
     show_settings |-> FALSE]

\* difficulty is a tier, or "" for None (both count as false).
set_mode(g, mode, difficulty) ==
    LET d == IF difficulty # "" THEN difficulty ELSE g.ai_difficulty
        g1 == [g EXCEPT !.game_mode = mode, !.ai_difficulty = d]
    IN  IF mode = "AI Mode"
        THEN [g1 EXCEPT !.ai = IF d = "Easy" THEN AI(<<1, "Easy">>)
                               ELSE IF d = "Normal" THEN AI(<<1, "Normal">>)
                               ELSE IF d = "Hard" THEN AI(<<3, "Hard">>)
                               ELSE g.ai,
                        !.ai_player = 2]
        ELSE [g1 EXCEPT !.ai_player = NoPlayer]

\* The fields reset_game sets; the new Board(size) is the caller's to take.
reset_game(g) ==
    [g EXCEPT !.current_player = 1, !.game_over = FALSE, !.winner = NoPlayer]

\* The index random.choice draws for u: the first legal move or the last.
Pick(b, u) == IF u = 0 THEN 1 ELSE Len(get_valid_moves(b))

\* The stone of current_player has just been placed on (x, y): the win test
\* and the change of turn that follow the placement.
after_stone(g, b, x, y) ==
    IF check_win(b, x, y, g.current_player)
    THEN [g EXCEPT !.game_over = TRUE, !.winner = g.current_player]
    ELSE [g EXCEPT !.current_player = 3 - g.current_player]

\* Returns the fields and the grid after the call.
make_ai_move(g, b, u) ==
    LET r == get_best_move(b, g.ai.difficulty, Pick(b, u))
    IN  IF r.move # None
        THEN LET x == r.move[1]
                 y == r.move[2]
                 b1 == place_stone(r.board, x, y, g.current_player).board
             IN  [game |-> after_stone(g, b1, x, y), board |-> b1]
        ELSE [game |-> g, board |-> r.board]

\* A variant that takes the click whether or not the game is over.
board_click_after_end(g, b, cell, u) ==
    IF cell # None /\ is_valid_move(b, cell[1], cell[2])
    THEN LET b1 == place_stone(b, cell[1], cell[2], g.current_player).board
             g1 == after_stone(g, b1, cell[1], cell[2])
         IN  IF ~g1.game_over /\ g1.game_mode = "AI Mode"
                   /\ g1.current_player = g1.ai_player
             THEN make_ai_move(g1, b1, u)
             ELSE [game |-> g1, board |-> b1]
    ELSE [game |-> g, board |-> b]

\* The click on the board, cell being what screen_to_board made of the
\* position: a cell of the grid or None.
board_click(g, b, cell, u) ==
    IF cell # None /\ ~g.game_over /\ is_valid_move(b, cell[1], cell[2])
    THEN LET b1 == place_stone(b, cell[1], cell[2], g.current_player).board
             g1 == after_stone(g, b1, cell[1], cell[2])
         IN  IF ~g1.game_over /\ g1.game_mode = "AI Mode"
                   /\ g1.current_player = g1.ai_player
             THEN make_ai_move(g1, b1, u)
             ELSE [game |-> g1, board |-> b1]
    ELSE [game |-> g, board |-> b]

\* name is the button whose rectangle holds the position (NoButton if none);
\* only the buttons of the last render are looked through.
handle_mouse_click(g, b, name, cell, u) ==
    LET hit(n) == name = n /\ n \in g.buttons
        start(mode, difficulty, g1) ==
            [game |-> reset_game(set_mode(g1, mode, difficulty)), board |-> EmptyBoard]
    IN  IF g.show_main_menu
        THEN LET g1 == [g EXCEPT !.show_main_menu = FALSE]
             IN  IF hit("2player") THEN start("2 Player", "", g1)
                 ELSE IF hit("ai_easy") THEN start("AI Mode", "Easy", g1)
                 ELSE IF hit("ai_normal") THEN start("AI Mode", "Normal", g1)
                 ELSE IF hit("ai_hard") THEN start("AI Mode", "Hard", g1)
                 ELSE [game |-> g, board |-> b]
        ELSE IF g.show_settings
        THEN LET g1 == [g EXCEPT !.show_settings = FALSE]
             IN  IF hit("set_2player") THEN start("2 Player", "", g1)
                 ELSE IF hit("set_ai_easy") THEN start("AI Mode", "Easy", g1)
                 ELSE IF hit("set_ai_normal") THEN start("AI Mode", "Normal", g1)
                 ELSE IF hit("set_ai_hard") THEN start("AI Mode", "Hard", g1)
                 ELSE IF hit("close_settings") THEN [game |-> g1, board |-> b]
                 ELSE [game |-> g, board |-> b]
        ELSE IF hit("new_game") \/ hit("restart") \/ hit("winner")
        THEN [game |-> reset_game(g), board |-> EmptyBoard]
        ELSE IF hit("settings")
        THEN [game |-> [g EXCEPT !.show_settings = TRUE], board |-> b]
        ELSE board_click(g, b, cell, u)

\* One turn of the for-loop of handle_events, for the event e.
handle_event(g, b, e, u) ==
    IF e[1] = "QUIT"
    THEN [game |-> [g EXCEPT !.running = FALSE], board |-> b]
    ELSE IF e[1] = "KEYDOWN"
    THEN IF e[2] = "ESCAPE"
         THEN IF g.show_settings
              THEN [game |-> [g EXCEPT !.show_settings = FALSE], board |-> b]
              ELSE IF ~g.show_main_menu
              THEN [game |-> [g EXCEPT !.show_main_menu = TRUE], board |-> b]
              ELSE [game |-> g, board |-> b]
         ELSE [game |-> g, board |-> b]
    ELSE IF e[1] = "MOUSEBUTTONDOWN"
    THEN IF e[2] = 1
         THEN handle_mouse_click(g, b, e[3], e[4], u)
         ELSE [game |-> g, board |-> b]
    ELSE [game |-> g, board |-> b]

\* The buttons render puts up for the screen shown.
render(g) ==
    IF g.show_main_menu
    THEN {"2player", "ai_easy", "ai_normal", "ai_hard"}
    ELSE {"new_game", "restart"}
         \cup (IF g.game_over /\ g.winner # NoPlayer THEN {"winner"} ELSE {})
         \cup (IF g.show_settings
               THEN {"set_2player", "set_ai_easy", "set_ai_normal", "set_ai_hard",
                     "close_settings"}
               ELSE {"settings"})

(* ------------------------- positions explored ------------------------- *)

\* The grids handed to the engines: a filled position without a line of five,
\* in which the cells of Window are still to be played.  Around the window lie
\* runs of four on each axis: a black diagonal ending at (1,0), a white
\* anti-diagonal ending at (4,0), a black column ending at (5,0), a white
\* column around (0,2), and white stones along row 0.
Window == {<<1, 0>>, <<2, 0>>, <<4, 0>>, <<5, 0>>, <<0, 2>>}

Ground(x, y) == IF ((x + 2 * y) % 4) < 2 THEN 1 ELSE 2

Fixed(x, y) ==
    IF <<x, y>> \in {<<2, 1>>, <<3, 2>>, <<4, 3>>, <<5, 4>>, <<5, 1>>, <<5, 2>>, <<5, 3>>}
    THEN 1
    ELSE IF <<x, y>> \in {<<0, 0>>, <<3, 0>>, <<0, 1>>, <<0, 3>>, <<3, 1>>, <<2, 2>>,
                          <<1, 3>>, <<0, 4>>, <<2, 3>>, <<5, 5>>, <<6, 5>>}
    THEN 2
    ELSE Ground(x, y)

Start == [y \in Coords |-> [x \in Coords |->
             IF <<x, y>> \in Window THEN 0 ELSE Fixed(x, y)]]

\* Arguments tried: every cell and one step outside the grid on each side.
Args == -1 .. Size

Players == {1, 2}

Tiers == {"Easy", "Normal", "Hard", "Expert"}

\* The alpha/beta windows tried: open, narrow, and closed (beta <= alpha).
Windows == {<<NegInf, PosInf>>, <<-100, 100>>, <<100, -100>>}

\* Every way of playing on in the window of Start, stone by stone.
Positions ==
    {[y \in Coords |-> [x \in Coords |->
         IF <<x, y>> \in Window THEN f[<<x, y>>] ELSE Fixed(x, y)]] :
       f \in [Window -> 0 .. 2]}

\* The indices random.choice can draw from the legal moves of b; only the
\* Easy tier draws.
Picks(b, difficulty) ==
    IF difficulty = "Easy" /\ get_valid_moves(b) # <<>>
    THEN 1 .. Len(get_valid_moves(b))
    ELSE {1}

(* ------------------------------ actions ------------------------------- *)

\* A board on which the stones of Start have been placed: place_stone accepts
\* either player on any empty cell, so every grid is one a Board can hold.
Init ==
    /\ board = Start
    /\ op = "idle"
    /\ args = <<>>
    /\ ret = <<>>
    /\ game = None

PlaceStone(x, y, p) ==
    /\ op = "idle"
    /\ \E r \in {place_stone(board, x, y, p)} :
           /\ board' = r.board
           /\ ret' = r.ok
    /\ op' = "place_stone"
    /\ args' = <<x, y, p>>
    /\ UNCHANGED game

IsValidMove(x, y) ==
    /\ op = "idle"
    /\ ret' = is_valid_move(board, x, y)
    /\ op' = "is_valid_move"
    /\ args' = <<x, y>>
    /\ UNCHANGED <<board, game>>

CheckWin(x, y, p) ==
    /\ op = "idle"
    /\ ret' = check_win(board, x, y, p)
    /\ op' = "check_win"
    /\ args' = <<x, y, p>>
    /\ UNCHANGED <<board, game>>

GetValidMoves ==
    /\ op = "idle"
    /\ ret' = get_valid_moves(board)
    /\ op' = "get_valid_moves"
    /\ args' = <<>>
    /\ UNCHANGED <<board, game>>

GetBestMove(difficulty, k) ==
    /\ op = "idle"
    /\ \E r \in {get_best_move(board, difficulty, k)} :
           /\ board' = r.board
           /\ ret' = r.move
    /\ op' = "get_best_move"
    /\ args' = <<difficulty>>
    /\ UNCHANGED game

Minimax(depth, is_maximizing, alpha, beta) ==
    /\ op = "idle"
    /\ \E r \in {minimax(board, depth, is_maximizing, alpha, beta)} :
           /\ board' = r.board
           /\ ret' = r.score
    /\ op' = "minimax"
    /\ args' = <<depth, is_maximizing, alpha, beta>>
    /\ UNCHANGED game

MinimaxMove(depth) ==
    /\ op = "idle"
    /\ \E r \in {minimax_move(board, depth)} :
           /\ board' = r.board
           /\ ret' = r.move
    /\ op' = "_minimax_move"
    /\ args' = <<depth>>
    /\ UNCHANGED game

\* The caller takes the result; the next call can be made.
Return ==
    /\ op # "idle"
    /\ op' = "idle"
    /\ args' = <<>>
    /\ ret' = <<>>
    /\ UNCHANGED <<board, game>>

\* board.reset(); args keeps the grid that reset found.
Reset ==
    /\ op = "idle"
    /\ board' = reset(board)
    /\ op' = "reset"
    /\ args' = <<board>>
    /\ ret' = None
    /\ UNCHANGED game

\* AI(*a).get_best_move(board): the move of an AI built with the arguments a.
\* get_best_move reads self.difficulty, self.player and self.opponent.
ConstructedMove(a, k) ==
    /\ op = "idle"
    /\ \E r \in {get_best_move(board, AI(a).difficulty, k)} :
           /\ board' = r.board
           /\ ret' = r.move
    /\ op' = "AI.get_best_move"
    /\ args' = a
    /\ UNCHANGED game

GetRandomMove(k) ==
    /\ op = "idle"
    /\ ret' = get_random_move(board, k)
    /\ op' = "get_random_move"
    /\ args' = <<>>
    /\ UNCHANGED <<board, game>>

\* AI(*a): the new object is the result.
NewAI(a) ==
    /\ op = "idle"
    /\ ret' = AI(a)
    /\ op' = "AI"
    /\ args' = a
    /\ UNCHANGED <<board, game>>

\* run: the loop test passed, pygame.event.get() is taken.
EnterFrame ==
    /\ op = "run"
    /\ game.running
    /\ op' = "handle_events"
    /\ args' = <<>>
    /\ UNCHANGED <<board, ret, game>>

\* handle_events: the next event of the frame is e; args keeps it.
HandleEvent(e, u) ==
    /\ op = "handle_events"
    /\ \E r \in {handle_event(game, board, e, u)} :
           /\ game' = r.game
           /\ board' = r.board
    /\ args' = e
    /\ UNCHANGED <<op, ret>>

\* The events of the frame are handled: update, render, tick, and back to
\* the loop test.
EndFrame ==
    /\ op = "handle_events"
    /\ game' = [game EXCEPT !.buttons = render(game)]
    /\ op' = "run"
    /\ args' = <<>>
    /\ UNCHANGED <<board, ret>>

\* run: the loop test failed, pygame.quit().
Quit ==
    /\ op = "run"
    /\ ~game.running
    /\ op' = "quit"
    /\ UNCHANGED <<board, args, ret, game>>

IsGameOver ==
    /\ op = "idle"
    /\ ret' = is_game_over(board)
    /\ op' = "is_game_over"
    /\ args' = <<>>
    /\ UNCHANGED <<board, game>>

CalculateLineScore(count, blocked) ==
    /\ op = "idle"
    /\ ret' = calculate_line_score(count, blocked)
    /\ op' = "calculate_line_score"
    /\ args' = <<count, blocked>>
    /\ UNCHANGED <<board, game>>

EvaluateBoard ==
    /\ op = "idle"
    /\ ret' = evaluate_board(board)
    /\ op' = "evaluate_board"
    /\ args' = <<>>
    /\ UNCHANGED <<board, game>>

\* The board engine, played on from Start.
Next ==
    \/ \E x \in Args, y \in Args, p \in Players : PlaceStone(x, y, p)
    \/ \E x \in Args, y \in Args : IsValidMove(x, y)
    \/ \E x \in Coords, y \in Coords, p \in Players : CheckWin(x, y, p)
    \/ GetValidMoves
    \/ Return

Spec == Init /\ [][Next]_vars

\* The search engine: the board is its input, drawn from Positions.
InitSearch ==
    /\ board \in Positions
    /\ op = "idle"
    /\ args = <<>>
    /\ ret = <<>>
    /\ game = None

\* The depths the AI-against-AI runs construct their engines with.
TestDepths == {2, 3}

NextSearch ==
    \/ \E d \in Tiers : \E k \in Picks(board, d) : GetBestMove(d, k)
    \/ \E d \in TestDepths : \E k \in Picks(board, AI(<<d>>).difficulty) :
          ConstructedMove(<<d>>, k)
    \/ \E depth \in 1 .. (MaxDepth + 1) : MinimaxMove(depth)
    \/ \E depth \in 0 .. MaxDepth, m \in BOOLEAN, w \in Windows :
          Minimax(depth, m, w[1], w[2])
    \/ Return

SpecSearch == InitSearch /\ [][NextSearch]_vars

\* Boards early in a game: empty, one stone in the centre, and a stone of
\* each player on the diagonal through it.
Early ==
    LET c == Size \div 2
        one == place_stone(EmptyBoard, c, c, opponent).board
    IN  {EmptyBoard, one, place_stone(one, c + 1, c + 1, player).board}

\* The tiers asked for a move on b: the searches of depth 2 and 3 are run on
\* the positions of the search only.
TiersOn(b) == IF b \in Early THEN {"Easy", "Normal"} ELSE Tiers

\* Every move the engine hands out, on the positions of the search and on
\* boards early in a game.
InitMoves ==
    /\ board \in Positions \cup Early
    /\ op = "idle"
    /\ args = <<>>
    /\ ret = <<>>
    /\ game = None

NextMoves ==
    \/ \E d \in TiersOn(board) : \E k \in Picks(board, d) : GetBestMove(d, k)
    \/ \E k \in Picks(board, "Easy") : GetRandomMove(k)
    \/ Return

SpecMoves == InitMoves /\ [][NextMoves]_vars

\* The static functions of the engine, on the positions of the search and on
\* the empty board.
InitEval ==
    /\ board \in Positions \cup {EmptyBoard}
    /\ op = "idle"
    /\ args = <<>>
    /\ ret = <<>>
    /\ game = None

\* The runs evaluate_position can count on the grid, and one beyond.
Counts == 1 .. (Size + 1)

NextEval ==
    \/ IsGameOver
    \/ \E count \in Counts, blocked \in 0 .. 2 : CalculateLineScore(count, blocked)
    \/ EvaluateBoard
    \/ Return

SpecEval == InitEval /\ [][NextEval]_vars

\* The cells and the stones handed to place_stone on a new board: three cells
\* of the grid, the centre among them, and two cells outside it; the two
\* players, Empty, and a value that is none of the three.
Opening == {<<0, 0>>, <<1, 0>>, <<Size \div 2, Size \div 2>>, <<-1, 0>>, <<0, Size>>}

Stones == 0 .. 3

\* The ways an AI is constructed: AI(), AI(depth), AI(depth, difficulty).
Constructions ==
    {<<>>} \cup {<<d>> : d \in 1 .. 3} \cup {<<d, t>> : d \in 1 .. 3, t \in Tiers}

\* Board(Size) has just returned.
InitFresh ==
    /\ board = EmptyBoard
    /\ op = "__init__"
    /\ args = <<Size>>
    /\ ret = None
    /\ game = None

\* A new board, stones placed on it with any arguments, reset, and the
\* searches of an AI built with the defaults.
NextFresh ==
    \/ \E c \in Opening, p \in Stones : PlaceStone(c[1], c[2], p)
    \/ Reset
    \/ \E a \in Constructions : NewAI(a)
    \/ \E k \in Picks(board, AI(<<>>).difficulty) : GetBestMove(AI(<<>>).difficulty, k)
    \/ MinimaxMove(1)
    \/ Return

SpecFresh == InitFresh /\ [][NextFresh]_vars

\* The cells clicked on the board.
Clicks == {<<0, 0>>, <<1, 0>>, <<Size - 1, Size - 1>>}

\* The buttons clicked; the searches of the Hard tier on a board nearly
\* empty are left to SpecSearch.
Pressed ==
    {"2player", "ai_easy", "ai_normal", "set_2player", "set_ai_easy", "set_ai_normal",
     "close_settings", "new_game", "restart", "winner", "settings"}

\* The events pygame delivers: left clicks on a button, on a cell of the
\* board or beside both, a right click, keys, a resize, the close of the
\* window.
Events ==
    {<<"QUIT">>, <<"VIDEORESIZE">>, <<"KEYDOWN", "ESCAPE">>, <<"KEYDOWN", "r">>,
     <<"MOUSEBUTTONDOWN", 3, NoButton, None>>, <<"MOUSEBUTTONDOWN", 1, NoButton, None>>}
    \cup {<<"MOUSEBUTTONDOWN", 1, n, None>> : n \in Pressed}
    \cup {<<"MOUSEBUTTONDOWN", 1, NoButton, c>> : c \in Clicks}

\* The draws of random.choice tried (see Pick); only the Easy tier draws.
Draws(g) == IF g.ai.difficulty = "Easy" THEN {0, 1} ELSE {0}

\* Game() has returned and run() is at its loop test.
InitGame ==
    /\ board = EmptyBoard
    /\ op = "run"
    /\ args = <<>>
    /\ ret = None
    /\ game = Game_init

\* The main loop of the game.
NextGame ==
    \/ EnterFrame
    \/ \E e \in Events, u \in Draws(game) : HandleEvent(e, u)
    \/ EndFrame
    \/ Quit

SpecGame == InitGame /\ [][NextGame]_vars

\* The state run() is in after the frames that handled the events es, one
\* event a frame, each frame ending with render; the draws are the first
\* legal move.  The result is a set of one element.
RECURSIVE played(_, _, _)
played(g, b, es) ==
    IF es = <<>> THEN {[game |-> [g EXCEPT !.buttons = render(g)], board |-> b]}
    ELSE UNION {played(r.game, r.board, Tail(es)) :
                   r \in {handle_event([g EXCEPT !.buttons = render(g)], b, Head(es), 0)}}

\* A left click on the button n, and one on the cell c of the board.
press(n) == <<"MOUSEBUTTONDOWN", 1, n, None>>
click(c) == <<"MOUSEBUTTONDOWN", 1, NoButton, c>>

\* The first moves of two games, one between two players and one against
\* the Easy tier: black builds a row of three from (1, 2), white one from
\* (0, 0).
Openings ==
    {<<press("2player"), click(<<1, 2>>), click(<<0, 0>>), click(<<2, 2>>),
       click(<<1, 0>>), click(<<3, 2>>), click(<<2, 0>>)>>,
     <<press("ai_easy"), click(<<1, 2>>), click(<<2, 2>>), click(<<3, 2>>)>>}

\* The cells clicked from there on: the next two of each row, and one away.
PlayClicks == {<<4, 2>>, <<5, 2>>, <<3, 0>>, <<4, 0>>, <<Size - 1, Size - 1>>}

\* The buttons clicked from there on: those that call reset_game.
PlayPressed == {"new_game", "winner"}

PlayEvents ==
    {<<"QUIT">>}
    \cup {press(n) : n \in PlayPressed}
    \cup {click(c) : c \in PlayClicks}

\* run() is at its loop test, a game under way.
InitPlay ==
    /\ \E es \in Openings : \E r \in played(Game_init, EmptyBoard, es) :
           /\ game = r.game
           /\ board = r.board
    /\ op = "run"
    /\ args = <<>>
    /\ ret = None

NextPlay ==
    \/ EnterFrame
    \/ \E e \in PlayEvents, u \in Draws(game) : HandleEvent(e, u)
    \/ EndFrame
    \/ Quit

SpecPlay == InitPlay /\ [][NextPlay]_vars

(* ------------------- what the claims speak about ---------------------- *)

\* Row-major rank of a cell: increasing y, then increasing x.
Rank(c) == c[2] * Size + c[1]

EmptyCells(b) == {c \in Coords \X Coords : b[c[2]][c[1]] = 0}

\* Five cells in a row along one axis, all of p, one of them (x, y).
FiveThrough(b, x, y, p) ==
    \E d \in {<<1, 0>>, <<0, 1>>, <<1, 1>>, <<1, -1>>} : \E k \in 0 .. 4 :
        \A j \in 0 .. 4 :
            LET cx == x + (j - k) * d[1]
                cy == y + (j - k) * d[2]
            IN  cx \in Coords /\ cy \in Coords /\ b[cy][cx] = p

\* The empty cells where a stone of p would complete five.
Wins(b, p) ==
    {c \in EmptyCells(b) : FiveThrough([b EXCEPT ![c[2]][c[1]] = p], c[1], c[2], p)}

\* The first cell of a non-empty set in move-enumeration order.
First(S) == CHOOSE c \in S : \A e \in S : Rank(c) <= Rank(e)

(* ------------------------------ board.py ------------------------------ *)

\* C5: place_stone on an in-range empty cell returns true, sets that cell to
\* the player and leaves every other cell alone; on an out-of-range or
\* occupied cell it returns false and leaves the whole grid alone.
PlaceStoneContract ==
    [][op' = "place_stone" =>
         LET x == args'[1]
             y == args'[2]
             p == args'[3]
         IN  IF x \in Coords /\ y \in Coords /\ board[y][x] = 0
             THEN /\ ret' = TRUE
                  /\ \A cy \in Coords : \A cx \in Coords :
                        board'[cy][cx] = IF cx = x /\ cy = y THEN p ELSE board[cy][cx]
             ELSE /\ ret' = FALSE
                  /\ board' = board]_vars

\* A placement at a negative coordinate was refused.
PlaceStoneWitness ==
    /\ op = "place_stone"
    /\ args[1] < 0
    /\ ret = FALSE

\* C6: is_valid_move is true exactly for in-range empty cells, and leaves the
\* grid alone.
IsValidMoveContract ==
    [][op' = "is_valid_move" =>
         /\ board' = board
         /\ ret' = (/\ 0 <= args'[1] /\ args'[1] < Size
                    /\ 0 <= args'[2] /\ args'[2] < Size
                    /\ board[args'[2]][args'[1]] = 0)]_vars

\* An occupied in-range cell was reported invalid.
IsValidMoveWitness ==
    /\ op = "is_valid_move"
    /\ args[1] \in Coords /\ args[2] \in Coords
    /\ board[args[2]][args[1]] # 0
    /\ ret = FALSE

\* C7: at a cell holding p, check_win is true exactly when five cells in a
\* row of p pass through the cell on one of the four axes.
CheckWinExact ==
    (op = "check_win" /\ board[args[2]][args[1]] = args[3])
        => (ret = FiveThrough(board, args[1], args[2], args[3]))

\* check_win was true at a middle stone of a run of six (or more) along row 0.
CheckWinWitness ==
    /\ op = "check_win"
    /\ args = <<3, 0, 2>>
    /\ \A x \in Coords : board[0][x] = 2
    /\ ret = TRUE

\* C8: get_valid_moves returns the empty cells, each once, in row-major
\* order, and leaves the grid alone.
GetValidMovesContract ==
    [][op' = "get_valid_moves" =>
         /\ board' = board
         /\ {ret'[i] : i \in 1 .. Len(ret')} = EmptyCells(board)
         /\ \A i \in 1 .. (Len(ret') - 1) : Rank(ret'[i]) < Rank(ret'[i + 1])]_vars

\* Empty cells in two rows were listed.
GetValidMovesWitness ==
    /\ op = "get_valid_moves"
    /\ Len(ret) >= 3
    /\ \E i \in 1 .. Len(ret) : ret[i][2] = 0
    /\ \E i \in 1 .. Len(ret) : ret[i][2] > 0

(* ------------------------------- ai.py -------------------------------- *)

\* The grid b with a stone of p on the empty cell c.
With(b, c, p) == [b EXCEPT ![c[2]][c[1]] = p]

SetMax(S) == CHOOSE v \in S : \A w \in S : w <= v

SetMin(S) == CHOOSE v \in S : \A w \in S : v <= w

\* Minimax over the whole tree, without alpha, beta or any cutoff, on grids
\* that are never modified.
RECURSIVE Exhaustive(_, _, _)
Exhaustive(b, depth, is_maximizing) ==
    IF depth = 0 \/ is_game_over(b) THEN evaluate_board(b)
    ELSE LET S == {Exhaustive(With(b, c, IF is_maximizing THEN player ELSE opponent),
                              depth - 1, ~is_maximizing) : c \in EmptyCells(b)}
         IN  IF is_maximizing THEN SetMax(S) ELSE SetMin(S)

\* The wrapper over the exhaustive search: the first move, in enumeration
\* order, of the highest score.
ExhaustiveMove(b, depth) ==
    IF EmptyCells(b) = {} THEN None
    ELSE LET score == [c \in EmptyCells(b) |->
                          Exhaustive(With(b, c, player), depth - 1, FALSE)]
             best == SetMax({score[c] : c \in EmptyCells(b)})
         IN  First({c \in EmptyCells(b) : score[c] = best})

\* C1: get_best_move leaves the grid as it found it, in every tier and on
\* every return path.
GetBestMoveRestores == [][op' = "get_best_move" => board' = board]_vars

\* The Hard tier searched three plies deep from a position that is not over.
GetBestMoveWitness ==
    /\ op = "get_best_move"
    /\ args = <<"Hard">>
    /\ ~is_game_over(board)
    /\ Cardinality(EmptyCells(board)) >= 4
    /\ ret # None

\* C2: minimax leaves the grid as it found it, for every depth, side and
\* window, cutoffs included.
MinimaxRestores == [][op' = "minimax" => board' = board]_vars

\* A maximizing search two plies deep was cut off after its first move (the
\* window was closed), with further moves untried.
MinimaxWitness ==
    /\ op = "minimax"
    /\ args = <<2, TRUE, 100, -100>>
    /\ ~is_game_over(board)
    /\ Cardinality(EmptyCells(board)) >= 3

\* C3: the move of _minimax_move, which prunes, is the move of the wrapper
\* over the exhaustive search of the same depth.
PruningKeepsMove ==
    op = "_minimax_move" => ret = ExhaustiveMove(board, args[1])

\* A three-ply search in which a cutoff skipped a move: below an engine move
\* c, an opponent reply r was abandoned when an engine answer e to it, not the
\* last one, scored at least the lowest value of the replies tried before r.
PruningWitness ==
    /\ op = "_minimax_move"
    /\ args = <<3>>
    /\ ~is_game_over(board)
    /\ \E c \in EmptyCells(board) :
          LET b1 == With(board, c, player)
          IN  /\ ~is_game_over(b1)
              /\ \E r \in EmptyCells(b1) :
                    LET b2 == With(b1, r, opponent)
                        earlier == {q \in EmptyCells(b1) : Rank(q) < Rank(r)}
                    IN  /\ earlier # {}
                        /\ ~is_game_over(b2)
                        /\ \E e \in EmptyCells(b2) :
                              /\ \E l \in EmptyCells(b2) : Rank(e) < Rank(l)
                              /\ evaluate_board(With(b2, e, player)) >=
                                    SetMin({Exhaustive(With(b1, q, opponent), 1, TRUE) :
                                              q \in earlier})

\* C4: get_best_move returns None exactly when the grid has no empty cell.
NoneIffFull ==
    op = "get_best_move" => ((ret = None) <=> (EmptyCells(board) = {}))

\* A search on a full grid returned None.
NoneWitness ==
    /\ op = "get_best_move"
    /\ EmptyCells(board) = {}
    /\ ret = None

\* C9: in the Easy tier, when some move completes five for the engine, the
\* first such move in enumeration order is returned.
EasyTakesFirstWin ==
    (op = "get_best_move" /\ args = <<"Easy">> /\ Wins(board, player) # {})
        => ret = First(Wins(board, player))

\* Two winning moves were on offer, and a blocking move came before both.
EasyWinWitness ==
    /\ op = "get_best_move"
    /\ args = <<"Easy">>
    /\ Cardinality(Wins(board, player)) >= 2
    /\ \E c \in Wins(board, opponent) : Rank(c) < Rank(First(Wins(board, player)))

\* C10: in the Easy tier, without a winning move of its own the engine
\* returns the first cell where the opponent would complete five; a winning
\* move of its own goes before any block.
EasyBlocksFirstThreat ==
    (op = "get_best_move" /\ args = <<"Easy">>)
        => /\ (Wins(board, player) = {} /\ Wins(board, opponent) # {})
                 => ret = First(Wins(board, opponent))
           /\ (Wins(board, player) # {}) => ret \in Wins(board, player)

\* Two threats and no win: the engine blocked.
EasyBlockWitness ==
    /\ op = "get_best_move"
    /\ args = <<"Easy">>
    /\ Wins(board, player) = {}
    /\ Cardinality(Wins(board, opponent)) >= 2

\* The candidates with the scores _minimax_move gives them: the value, over
\* the whole tree, of the position after the engine's stone on the cell.
RootScores(b, depth) ==
    {<<c, Exhaustive(With(b, c, player), depth - 1, FALSE)>> : c \in EmptyCells(b)}

\* The candidates of the highest score.
BestCells(b, depth) ==
    LET scored == RootScores(b, depth)
    IN  {s[1] : s \in {t \in scored : \A u \in scored : u[2] <= t[2]}}

\* C11: of several candidates of the highest score _minimax_move returns the
\* one that comes first in row-major order, and in the minimax tiers the
\* move of get_best_move is the same for the first and for the last index
\* the random draw can give: a second run on the same grid in the same tier
\* returns the same move.
TieKeepsFirst ==
    /\ (op = "_minimax_move" /\ ret # None)
          => LET best == BestCells(board, args[1])
             IN  ret \in best /\ \A c \in best : Rank(ret) <= Rank(c)
    /\ (op = "get_best_move" /\ args[1] # "Easy")
          => \A k \in {1, Cardinality(EmptyCells(board))} :
                get_best_move(board, args[1], k).move = ret

\* Two candidates or more shared the highest score, and a candidate of a
\* lower score came before them.
TieWitness ==
    /\ op = "_minimax_move"
    /\ ret # None
    /\ Cardinality(BestCells(board, args[1])) >= 2
    /\ \E c \in EmptyCells(board) : Rank(c) < Rank(ret)

ConstructedDepthSearched ==
    op = "AI.get_best_move" => ret = ExhaustiveMove(board, args[1])

\* C23: every move handed out is legal on the board given: a result of
\* get_best_move (in every tier) or of get_random_move that is not None is a
\* pair (x, y) on the grid whose cell is Empty after the call; and
\* get_random_move returns None only when no cell is Empty.
MovesLegal ==
    /\ (op \in {"get_best_move", "get_random_move"} /\ ret # None)
          => /\ Len(ret) = 2
             /\ ret[1] \in Coords
             /\ ret[2] \in Coords
             /\ board[ret[2]][ret[1]] = 0
    /\ (op = "get_random_move" /\ ret = None) => EmptyCells(board) = {}

\* Easy found nothing to win and nothing to block, among several legal moves,
\* and drew a move that is not the first of them.
MovesLegalWitness ==
    /\ op = "get_best_move"
    /\ args = <<"Easy">>
    /\ Wins(board, player) = {}
    /\ Wins(board, opponent) = {}
    /\ Cardinality(EmptyCells(board)) > 2
    /\ ret # None
    /\ ret # First(EmptyCells(board))

\* A line of five (or more) of player 1 or of player 2 lies on the grid.
HasFive(b) ==
    \E y \in Coords : \E x \in Coords : \E p \in {1, 2} :
        b[y][x] = p /\ FiveThrough(b, x, y, p)

\* C18: is_game_over is true exactly when the grid is full or holds five
\* contiguous stones of player 1 or of player 2 on a row, a column or a
\* diagonal, and it leaves the grid alone.
IsGameOverExact ==
    [][op' = "is_game_over" =>
         /\ board' = board
         /\ ret' = (EmptyCells(board) = {} \/ HasFive(board))]_vars

\* A full grid without a line of five was found over.
IsGameOverWitness ==
    /\ op = "is_game_over"
    /\ EmptyCells(board) = {}
    /\ ~HasFive(board)
    /\ ret = TRUE

\* The cell j steps from (x, y) in direction d lies on the grid and holds v.
Holds(b, x, y, d, j, v) ==
    /\ (x + j * d[1]) \in Coords
    /\ (y + j * d[2]) \in Coords
    /\ b[y + j * d[2]][x + j * d[1]] = v

\* The number of stones of p that follow (x, y) in direction d without a gap.
RunLength(b, x, y, d, p) ==
    CHOOSE n \in 0 .. Size :
        /\ \A j \in 1 .. n : Holds(b, x, y, d, j, p)
        /\ ~Holds(b, x, y, d, n + 1, p)

\* 1 if that run ends on a stone of another player, 0 if it ends on an empty
\* cell or at the edge.
EndBlocked(b, x, y, d, p) ==
    LET n == RunLength(b, x, y, d, p)
    IN  IF \E v \in Players \ {p} : Holds(b, x, y, d, n + 1, v) THEN 1 ELSE 0

\* The score of the stone on (x, y) along the axis d.
AxisScore(b, x, y, d) ==
    LET p == b[y][x]
        back == <<0 - d[1], 0 - d[2]>>
    IN  calculate_line_score(
            1 + RunLength(b, x, y, d, p) + RunLength(b, x, y, back, p),
            EndBlocked(b, x, y, d, p) + EndBlocked(b, x, y, back, p))

\* The score of the stone on cell c: its four axes, added if the stone is
\* the engine's, subtracted if not.
CellScore(b, c) ==
    LET own == AxisScore(b, c[1], c[2], <<1, 0>>) + AxisScore(b, c[1], c[2], <<0, 1>>)
               + AxisScore(b, c[1], c[2], <<1, 1>>) + AxisScore(b, c[1], c[2], <<1, -1>>)
    IN  IF b[c[2]][c[1]] = player THEN own ELSE 0 - own

RECURSIVE SumScores(_, _)
SumScores(b, S) ==
    IF S = {} THEN 0
    ELSE LET c == CHOOSE c \in S : TRUE
         IN  CellScore(b, c) + SumScores(b, S \ {c})

\* C20: evaluate_board is the sum, over the occupied cells, of the score of
\* the cell: on each of the four axes calculate_line_score of the run through
\* the cell and of the number of its ends that stop on an opposing stone,
\* added for the engine's stones and subtracted for the opponent's.  The
\* empty board evaluates to 0.
EvaluateBoardSum ==
    op = "evaluate_board"
        => /\ ret = SumScores(board, (Coords \X Coords) \ EmptyCells(board))
           /\ (board = EmptyBoard => ret = 0)

\* A grid was evaluated on which a run of two or more ends at the edge on
\* one side and on an opposing stone on the other.
EvaluateBoardWitness ==
    /\ op = "evaluate_board"
    /\ ret # 0
    /\ \E c \in (Coords \X Coords) \ EmptyCells(board) :
          \E d \in {<<1, 0>>, <<0, 1>>, <<1, 1>>, <<1, -1>>} :
              LET p == board[c[2]][c[1]]
                  n == RunLength(board, c[1], c[2], d, p)
              IN  /\ n >= 1
                  /\ EndBlocked(board, c[1], c[2], d, p) = 0
                  /\ ~((c[1] + (n + 1) * d[1]) \in Coords /\ (c[2] + (n + 1) * d[2]) \in Coords)
                  /\ EndBlocked(board, c[1], c[2], <<0 - d[1], 0 - d[2]>>, p) = 1

\* C19: minimax called with depth 0, or at any depth on a grid that is full
\* or holds a line of five, returns the evaluation of the grid as it stands
\* and leaves the grid as it is; so the search of depth 1, that of the
\* Normal tier, returns the first of the candidates whose grid, with the
\* engine's stone on it and no reply, evaluates highest.
BaseCaseEvaluates ==
    [][/\ (op' = "minimax"
            /\ (args'[1] = 0 \/ EmptyCells(board) = {} \/ HasFive(board)))
          => (ret' = evaluate_board(board) /\ board' = board)
       /\ (op' = "_minimax_move" /\ args' = <<1>> /\ ret' # None)
          => LET value == [c \in EmptyCells(board) |->
                              evaluate_board(With(board, c, player))]
             IN  /\ ret' \in EmptyCells(board)
                 /\ \A c \in EmptyCells(board) :
                       \/ value[c] < value[ret']
                       \/ value[c] = value[ret'] /\ Rank(ret') <= Rank(c)]_vars

\* A search of depth 2 for the engine met a grid that holds a line of five
\* and has empty cells left, one of which would raise the evaluation.
BaseCaseWitness ==
    /\ op = "minimax"
    /\ args[1] = 2
    /\ args[2] = TRUE
    /\ HasFive(board)
    /\ \E c \in EmptyCells(board) :
          evaluate_board(With(board, c, player)) > evaluate_board(board)

\* C21: for count >= 1 and blocked in 0 .. 2, calculate_line_score is 100000
\* when count >= 5, whatever blocked is; else 0 when blocked = 2; else
\* 10^(count-1) when blocked = 0 and that number halved, rounded down, when
\* blocked = 1 (0 for count = 1).
LineScoreTable ==
    op = "calculate_line_score"
        => LET count == args[1]
               blocked == args[2]
               open == <<1, 10, 100, 1000>>
               half == <<0, 5, 50, 500>>
           IN  ret = IF count >= 5 THEN 100000
                     ELSE IF blocked = 2 THEN 0
                     ELSE IF blocked = 0 THEN open[count]
                     ELSE half[count]

\* A run of five closed at both ends scored 100000.
LineScoreWitness ==
    /\ op = "calculate_line_score"
    /\ args = <<5, 2>>
    /\ ret = 100000

(* --------------------------- a new board ------------------------------ *)

\* C12: after construction, place_stone with any arguments, reset and the
\* searches, every cell holds Empty (0), PlayerA (1) or PlayerB (2), and the
\* grid is Size by Size.
CellsDefined ==
    /\ DOMAIN board = Coords
    /\ \A y \in Coords :
          /\ DOMAIN board[y] = Coords
          /\ \A x \in Coords : board[y][x] \in {0, 1, 2}

\* C13: on the empty board get_best_move of an AI built with the defaults
\* returns the centre cell.
FirstMoveCentre ==
    (op = "get_best_move" /\ args = <<AI(<<>>).difficulty>> /\ board = EmptyBoard)
        => ret = <<Size \div 2, Size \div 2>>

\* C14: an AI built without arguments has player 2, opponent 1 and depth 3.
DefaultAIFields ==
    (op = "AI" /\ args = <<>>)
        => (ret.player = 2 /\ ret.opponent = 1 /\ ret.depth = 3)

\* C15: a board that has just been constructed, or just been reset, is Size
\* by Size and every cell of it is Empty.
FreshAndResetEmpty ==
    op \in {"__init__", "reset"}
        => /\ DOMAIN board = Coords
           /\ \A y \in Coords :
                 /\ DOMAIN board[y] = Coords
                 /\ \A x \in Coords : board[y][x] = 0

\* reset found stones in two rows at least.
ResetWitness ==
    /\ op = "reset"
    /\ \E x \in Coords : args[1][0][x] # 0
    /\ \E y \in Coords \ {0} : \E x \in Coords : args[1][y][x] # 0

(* ------------------------------ game.py ------------------------------- *)

\* C17: pressing ESC quits the game: once a KEYDOWN event with the key ESC
\* has been handled, running is false (and the loop of run ends).
EscapeQuits ==
    (op = "handle_events" /\ args = <<"KEYDOWN", "ESCAPE">>) => ~game.running

\* The cells that hold a stone after the step and held none before it.
Placed == {c \in Coords \X Coords : board[c[2]][c[1]] = 0 /\ board'[c[2]][c[1]] # 0}

\* C24: a placement, by a board click or by make_ai_move, that completes a
\* line of five ends the game with the player of that stone as winner; once
\* the game is over, the board and current_player change only by reset_game;
\* and in AI mode a winning move of the human is not answered.
WinFreezesGame ==
    [][/\ \A c \in Placed :
             FiveThrough(board', c[1], c[2], board'[c[2]][c[1]])
                 => game'.game_over /\ game'.winner = board'[c[2]][c[1]]
       /\ (~game.game_over /\ game'.game_over)
             => \E c \in Placed :
                    /\ FiveThrough(board', c[1], c[2], board'[c[2]][c[1]])
                    /\ game'.winner = board'[c[2]][c[1]]
       /\ game.game_over
             => \/ /\ board' = board
                   /\ game'.game_over
                   /\ game'.winner = game.winner
                   /\ game'.current_player = game.current_player
                \/ /\ board' = EmptyBoard
                   /\ ~game'.game_over
                   /\ game'.winner = NoPlayer
                   /\ game'.current_player = 1
       /\ (~game.game_over /\ game'.game_over /\ game.game_mode = "AI Mode"
              /\ game'.winner # game.ai_player)
             => Cardinality(Placed) = 1
      ]_vars

\* The human has won against the AI, and a click on an empty cell of the
\* board has been handled since.
WinFreezesWitness ==
    /\ op = "handle_events"
    /\ game.game_over
    /\ game.game_mode = "AI Mode"
    /\ game.winner = 1
    /\ ~game.show_main_menu
    /\ Len(args) = 4
    /\ args[2] = 1
    /\ args[4] # None
    /\ board[args[4][2]][args[4][1]] = 0

====
